---- MODULE Spec2Model ----
(***************************************************************************)
(* Model of webmap-to-gpx.py: WebmapToGpx.parse and the four private       *)
(* stages it calls (__parse_web_sources, __extract_tracks,                 *)
(* __convert_to_gpx, __save_gpx_to_file).                                  *)
(*                                                                         *)
(* Text is a sequence of tokens.  The marker strings the program splits on *)
(* are single tokens (no marker is a substring of another, and none        *)
(* overlaps itself), ";", "'" and "/" are the characters the program       *)
(* treats specially, "x" is any other character, and an object literal is  *)
(* one token whose parsed value is given by LiteralValue.                  *)
(***************************************************************************)
EXTENDS Integers, Sequences, FiniteSets, TLC

VARIABLES
    response,            \* the body the server returns for the url
    pc,                  \* position of the current run of parse
    webpage_sources,     \* __parse_web_sources: decoded body
    javascript_sources,  \* __parse_web_sources: text of the script block
    page_name,           \* parse: page_name
    line_data_dict,      \* parse: line_data_dict
    tracks,              \* parse: tracks
    gpx,                 \* parse: gpx
    files,               \* the file system: path components -> file content
    error,               \* the exception that ended the run, if any
    log,                 \* logging.info messages of the current run
    run,                 \* number of the current run of parse
    requests,            \* HTTP GETs performed by the current run
    stages,              \* stages the current run has entered, in order
    opened,              \* files the current run has opened for writing
    files_before,        \* the file system when the current run started
    prev                 \* how the previous run ended

vars == <<response, pc, webpage_sources, javascript_sources, page_name,
          line_data_dict, tracks, gpx, files, error, log, run, requests,
          stages, opened, files_before, prev>>

---------------------------------------------------------------------------
(* Bounds of the model. *)

MaxPageLen == 3
MaxRuns == 2
MaxFeatures == 2
MaxLines == 2
MaxCoords == 2

---------------------------------------------------------------------------
(* Marker strings of __parse_web_sources. *)

javascript_start_marker == "<script type=\"text/javascript\">"
javascript_end_marker == "</script>"
title_marker == "document.title = "
line_data_marker == "var lineData = "
point_data_marker == "var pointData = "
map_marker == "var map = new maplibregl"

(* Object literals that occur in the modelled pages, and the value          *)
(* chompjs.parse_js_object gives each.  UnwritableValue is a coordinate     *)
(* component that the literal parser accepts and that line 159 cannot write *)
(* out: a string holding a lone surrogate, which the UTF-8 file refuses     *)
(* (an array nested deeper than str() can follow fails at the same line).   *)
UnwritableValue == "'\\ud800'"

LitNoFeatures == "{type:'FeatureCollection'}"
LitEmpty == "{features:[]}"
LitLine ==
    "{features:[{geometry:{type:'LineString',coordinates:[[10,20],[11,21]]}}]}"
LitMulti ==
    "{features:[{geometry:{type:'Point',coordinates:[1,2]}},{geometry:{type:'MultiLineString',coordinates:[[[10,20]],[]]}}]}"
LitUnwritable ==
    "{features:[{geometry:{type:'LineString',coordinates:[[10,'\\ud800']]}}]}"

Literals == {LitNoFeatures, LitEmpty, LitLine, LitMulti, LitUnwritable}

Feature(type, coordinates) ==
    [geometry |-> [type |-> type, coordinates |-> coordinates]]

LiteralValue(lit) ==
    CASE lit = LitNoFeatures -> [type |-> "FeatureCollection"]
      [] lit = LitEmpty -> [features |-> <<>>]
      [] lit = LitLine ->
            [features |->
                <<Feature("LineString", <<<<"10", "20">>, <<"11", "21">>>>)>>]
      [] lit = LitMulti ->
            [features |->
                <<Feature("Point", <<"1", "2">>),
                  Feature("MultiLineString", <<<<<<"10", "20">>>>, <<>>>>)>>]
      [] lit = LitUnwritable ->
            [features |->
                <<Feature("LineString", <<<<"10", UnwritableValue>>>>)>>]

---------------------------------------------------------------------------
(* Python string operations, on token sequences. *)

Contains(s, t) == \E i \in 1..Len(s) : s[i] = t

IndexOf(s, t) ==
    IF Contains(s, t) THEN CHOOSE i \in 1..Len(s) :
                               s[i] = t /\ \A j \in 1..(i - 1) : s[j] # t
    ELSE 0

(* str.split(sep): the parts of s between the occurrences of sep.  The text *)
(* is bound once (v), so that a nested call evaluates its argument once.    *)
RECURSIVE SplitValue(_, _)
SplitValue(v, sep) ==
    IF ~Contains(v, sep) THEN <<v>>
    ELSE CHOOSE parts \in
            {<<SubSeq(v, 1, i - 1)>> \o SplitValue(rest, sep) :
                <<i, rest>> \in {<<IndexOf(v, sep),
                                   SubSeq(v, IndexOf(v, sep) + 1, Len(v))>>}} :
            TRUE

Split(s, sep) == CHOOSE parts \in {SplitValue(v, sep) : v \in {s}} : TRUE

(* str.strip(chars) for a single character: drops every leading and every  *)
(* trailing occurrence.                                                     *)
StripValue(v, c) ==
    IF \A i \in 1..Len(v) : v[i] = c THEN <<>>
    ELSE SubSeq(v,
                CHOOSE i \in 1..Len(v) :
                    v[i] # c /\ \A j \in 1..(i - 1) : v[j] = c,
                CHOOSE i \in 1..Len(v) :
                    v[i] # c /\ \A j \in (i + 1)..Len(v) : v[j] = c)

Strip(s, c) == CHOOSE r \in {StripValue(v, c) : v \in {s}} : TRUE

(* chompjs.parse_js_object: the first object literal found in the text;     *)
(* text before and after it is ignored; no literal at all is a ValueError.  *)
HasLiteral(raw) == \E i \in 1..Len(raw) : raw[i] \in Literals

FirstLiteral(raw) ==
    raw[CHOOSE i \in 1..Len(raw) :
            raw[i] \in Literals /\ \A j \in 1..(i - 1) : raw[j] \notin Literals]

parse_js_object(raw) == LiteralValue(FirstLiteral(raw))

---------------------------------------------------------------------------
(* Exceptions, named by their Python type and the source line that raises.  *)

Exc(type, line) == [type |-> type, line |-> line]
NoError == Exc("", 0)

---------------------------------------------------------------------------
(* __parse_web_sources, lines 55-97, as functions of the decoded body.      *)

(* lines 70-71 *)
JavascriptSources(src) ==
    Split(Split(src, javascript_start_marker)[2], javascript_end_marker)[1]

(* lines 73-77; defined when the script text holds the title marker *)
PageName(js) == Strip(Split(Split(js, title_marker)[2], ";")[1], "'")

(* lines 79-80; defined when the script text holds the lineData marker *)
LineDataRaw(js) == Split(Split(js, line_data_marker)[2], point_data_marker)[1]

(* lines 88-89; defined when the script text holds the pointData marker *)
PointDataRaw(js) == Split(Split(js, point_data_marker)[2], map_marker)[1]

HasFeatures(dict) == "features" \in DOMAIN dict

(* The first exception __parse_web_sources raises on the body src, in the   *)
(* order of its statements; NoError when it returns.                        *)
WebSourcesErrorNoEndCheck(src) ==
    IF Len(src) = 0 THEN Exc("ValueError", 56)
    ELSE IF ~Contains(src, javascript_start_marker) THEN Exc("ValueError", 60)
    ELSE LET js == JavascriptSources(src) IN
    IF Len(Split(js, title_marker)) < 2 THEN Exc("IndexError", 74)
    ELSE IF Len(Split(js, line_data_marker)) < 2 THEN Exc("IndexError", 80)
    ELSE IF ~HasLiteral(LineDataRaw(js)) THEN Exc("ValueError", 81)
    ELSE LET line_data == parse_js_object(LineDataRaw(js)) IN
    IF ~HasFeatures(line_data) THEN Exc("KeyError", 85)
    ELSE IF Len(line_data.features) = 0 THEN Exc("IndexError", 85)
    ELSE IF Len(Split(js, point_data_marker)) < 2 THEN Exc("IndexError", 89)
    ELSE IF ~HasLiteral(PointDataRaw(js)) THEN Exc("ValueError", 90)
    ELSE IF ~HasFeatures(parse_js_object(PointDataRaw(js)))
         THEN Exc("KeyError", 94)
    ELSE NoError

WebSourcesError(src) ==
    IF Len(src) = 0 THEN Exc("ValueError", 56)
    ELSE IF ~Contains(src, javascript_start_marker) THEN Exc("ValueError", 60)
    ELSE IF ~Contains(src, javascript_end_marker) THEN Exc("ValueError", 66)
    ELSE LET js == JavascriptSources(src) IN
    IF Len(Split(js, title_marker)) < 2 THEN Exc("IndexError", 74)
    ELSE IF Len(Split(js, line_data_marker)) < 2 THEN Exc("IndexError", 80)
    ELSE IF ~HasLiteral(LineDataRaw(js)) THEN Exc("ValueError", 81)
    ELSE LET line_data == parse_js_object(LineDataRaw(js)) IN
    IF ~HasFeatures(line_data) THEN Exc("KeyError", 85)
    ELSE IF Len(line_data.features) = 0 THEN Exc("IndexError", 85)
    ELSE IF Len(Split(js, point_data_marker)) < 2 THEN Exc("IndexError", 89)
    ELSE IF ~HasLiteral(PointDataRaw(js)) THEN Exc("ValueError", 90)
    ELSE IF ~HasFeatures(parse_js_object(PointDataRaw(js)))
         THEN Exc("KeyError", 94)
    ELSE NoError

---------------------------------------------------------------------------
(* __extract_tracks, lines 100-129.                                         *)

(* lines 111, 122: GeoJSON pairs are [longitude, latitude] *)
CoordinateNoSwap(coordinate) ==
    [latitude |-> coordinate[1], longitude |-> coordinate[2]]

Coordinate(coordinate) ==
    [latitude |-> coordinate[2], longitude |-> coordinate[1]]

(* lines 109-112, 120-123 *)
TrackOf(line) == [j \in 1..Len(line) |-> Coordinate(line[j])]

RECURSIVE Flatten(_)
Flatten(seqs) ==
    IF Len(seqs) = 0 THEN <<>> ELSE Head(seqs) \o Flatten(Tail(seqs))

(* lines 106-125: the tracks one feature appends *)
TracksOfFeatureMerged(raw_track) ==
    LET geometry == raw_track.geometry IN
    IF geometry.type = "LineString"
    THEN <<TrackOf(geometry.coordinates)>>
    ELSE IF geometry.type = "MultiLineString"
    THEN <<TrackOf(Flatten(geometry.coordinates))>>
    ELSE <<>>

TracksOfFeature(raw_track) ==
    LET geometry == raw_track.geometry IN
    (IF geometry.type = "LineString"
     THEN <<TrackOf(geometry.coordinates)>>
     ELSE <<>>)
    \o
    (IF geometry.type = "MultiLineString"
     THEN [i \in 1..Len(geometry.coordinates) |->
              TrackOf(geometry.coordinates[i])]
     ELSE <<>>)

(* lines 103-129 *)
RECURSIVE extract_tracks(_)
extract_tracks(features) ==
    IF Len(features) = 0 THEN <<>>
    ELSE TracksOfFeature(Head(features)) \o extract_tracks(Tail(features))

---------------------------------------------------------------------------
(* __convert_to_gpx, lines 132-149.                                         *)

GPXTrackPoint(latitude, longitude) ==
    [latitude |-> latitude, longitude |-> longitude]

(* lines 141-147 *)
GPXTrackSegment(track) ==
    [points |-> [j \in 1..Len(track) |->
                    GPXTrackPoint(track[j].latitude, track[j].longitude)]]

(* lines 140-147 *)
RECURSIVE SegmentsSkippingEmpty(_)
SegmentsSkippingEmpty(trks) ==
    IF Len(trks) = 0 THEN <<>>
    ELSE (IF Len(Head(trks)) = 0 THEN <<>> ELSE <<GPXTrackSegment(Head(trks))>>)
         \o SegmentsSkippingEmpty(Tail(trks))

Segments(trks) == [i \in 1..Len(trks) |-> GPXTrackSegment(trks[i])]

(* lines 135-149 *)
convert_to_gpx(trks) == [tracks |-> <<[segments |-> Segments(trks)]>>]

EmptyGpx == [tracks |-> <<>>]

---------------------------------------------------------------------------
(* gpx.to_xml(): the XML text, as tokens; a point is written with the text  *)
(* of its two components.                                                   *)

PointXml(point) ==
    <<"<trkpt lat=", point.latitude, "lon=", point.longitude, "/>">>

SegmentXml(segment) ==
    <<"<trkseg>">>
    \o Flatten([j \in 1..Len(segment.points) |-> PointXml(segment.points[j])])
    \o <<"</trkseg>">>

TrackXml(track) ==
    <<"<trk>">>
    \o Flatten([i \in 1..Len(track.segments) |-> SegmentXml(track.segments[i])])
    \o <<"</trk>">>

to_xml(doc) ==
    <<"<gpx>">>
    \o Flatten([t \in 1..Len(doc.tracks) |-> TrackXml(doc.tracks[t])])
    \o <<"</gpx>">>

(* line 159 completes: to_xml() returns and the file accepts the text *)
Writable(doc) == ~Contains(to_xml(doc), UnwritableValue)

---------------------------------------------------------------------------
(* __save_gpx_to_file, lines 152-159, and the file system it writes to.     *)
(* A path is a token sequence; a file is identified by the components of    *)
(* its absolute path.  The directories that exist are the root and the      *)
(* folder of the script.                                                    *)

current_script_folder_path == <<"/", "d">>

(* os.path.join: an absolute second argument replaces the first *)
Join(folder, name) ==
    IF Len(name) > 0 /\ name[1] = "/" THEN name
    ELSE folder \o <<"/">> \o name

Components(path) == SelectSeq(Split(path, "/"), LAMBDA c : Len(c) > 0)

Parent(file) == SubSeq(file, 1, Len(file) - 1)

Directories == {<<>>, Components(current_script_folder_path)}

(* lines 153-157 *)
GpxFile(name) ==
    Components(Join(current_script_folder_path, name \o <<".gpx">>))

(* open(mode="w"): creates the file or truncates it *)
OpenAppend(fs, file) ==
    [p \in DOMAIN fs \cup {file} |-> IF p \in DOMAIN fs THEN fs[p] ELSE <<>>]

Open(fs, file) ==
    [p \in DOMAIN fs \cup {file} |-> IF p = file THEN <<>> ELSE fs[p]]

Write(fs, file, text) == [fs EXCEPT ![file] = @ \o text]

NoFiles == [p \in {} |-> <<>>]
OldFile == GpxFile(<<"x">>)
OldText == <<"old">>

---------------------------------------------------------------------------
(* The pages the server may return: any short text, alone or followed by    *)
(* the rest of a script block.                                              *)

PageAlphabet ==
    {javascript_start_marker, javascript_end_marker, title_marker,
     ";", "'", "/", "x"}

Bodies == UNION {[1..k -> PageAlphabet] : k \in 0..MaxPageLen}

Tails ==
    {<<>>}
    \cup {<<";", line_data_marker, lit, point_data_marker, LitEmpty,
            map_marker, javascript_end_marker>> : lit \in Literals}
    \cup {<<";", line_data_marker, LitLine, point_data_marker, LitNoFeatures,
            map_marker, javascript_end_marker>>,
          <<";", line_data_marker, LitLine, point_data_marker,
            map_marker, javascript_end_marker>>,
          <<";", line_data_marker, LitLine, javascript_end_marker>>}

Pages == {body \o tail : body \in Bodies, tail \in Tails}

---------------------------------------------------------------------------
(* parse, lines 36-46, one action per stage.                                *)

Raise(e) == pc' = "failed" /\ error' = e

Enter(stage) == stages' = Append(stages, stage)

Init ==
    /\ response \in Pages
    /\ files \in {NoFiles, [p \in {OldFile} |-> OldText]}
    /\ files_before = files
    /\ prev = [pc |-> "none", error |-> NoError, files |-> files]
    /\ pc = "start"
    /\ webpage_sources = <<>>
    /\ javascript_sources = <<>>
    /\ page_name = <<>>
    /\ line_data_dict = [features |-> <<>>]
    /\ tracks = <<>>
    /\ gpx = EmptyGpx
    /\ error = NoError
    /\ log = <<>>
    /\ run = 1
    /\ requests = 0
    /\ stages = <<>>
    /\ opened = {}

(* line 53-54: one blocking GET, which returns the body or raises *)
UrlOpenRetry ==
    /\ pc = "start"
    /\ Enter("fetch")
    /\ log' = Append(log, "Parsing '%s' webpage sources.")
    /\ \/ /\ requests' = requests + 1
          /\ webpage_sources' = response
          /\ pc' = "fetched"
          /\ UNCHANGED error
       \/ /\ requests' = requests + 2
          /\ Raise(Exc("URLError", 53))
          /\ UNCHANGED webpage_sources
    /\ UNCHANGED <<response, javascript_sources, page_name, line_data_dict,
                   tracks, gpx, files, run, opened, files_before, prev>>

UrlOpen ==
    /\ pc = "start"
    /\ Enter("fetch")
    /\ log' = Append(log, "Parsing '%s' webpage sources.")
    /\ requests' = requests + 1
    /\ \/ /\ webpage_sources' = response
          /\ pc' = "fetched"
          /\ UNCHANGED error
       \/ /\ Raise(Exc("URLError", 53))
          /\ UNCHANGED webpage_sources
    /\ UNCHANGED <<response, javascript_sources, page_name, line_data_dict,
                   tracks, gpx, files, run, opened, files_before, prev>>

(* lines 55-97 *)
ParseWebSources ==
    /\ pc = "fetched"
    /\ Enter("extract")
    /\ LET e == WebSourcesError(webpage_sources)
           js == JavascriptSources(webpage_sources)
       IN  /\ javascript_sources' =
                 IF e.line \in {56, 60, 66} THEN javascript_sources ELSE js
           /\ page_name' =
                 IF e.line \in {56, 60, 66, 74} THEN page_name ELSE PageName(js)
           /\ log' = log
                     \o (IF e = NoError \/ e.line \in {89, 90, 94}
                         THEN <<"Parsed %d waypoints.">> ELSE <<>>)
                     \o (IF e = NoError
                         THEN <<"Parsed %d points of interest.">> ELSE <<>>)
           /\ IF e = NoError
              THEN /\ line_data_dict' = parse_js_object(LineDataRaw(js))
                   /\ pc' = "parsed"
                   /\ UNCHANGED error
              ELSE /\ Raise(e)
                   /\ UNCHANGED line_data_dict
    /\ UNCHANGED <<response, webpage_sources, tracks, gpx, files, run,
                   requests, opened, files_before, prev>>

(* line 42 *)
ExtractTracks ==
    /\ pc = "parsed"
    /\ Enter("build")
    /\ tracks' = extract_tracks(line_data_dict.features)
    /\ log' = log \o <<"Creating list of tracks.", "Parsed %d tracks.">>
    /\ pc' = "tracked"
    /\ UNCHANGED <<response, webpage_sources, javascript_sources, page_name,
                   line_data_dict, gpx, files, error, run, requests, opened,
                   files_before, prev>>

(* line 43 *)
ConvertToGpx ==
    /\ pc = "tracked"
    /\ Enter("convert")
    /\ gpx' = convert_to_gpx(tracks)
    /\ log' = Append(log, "Creating gpxpy object.")
    /\ pc' = "converted"
    /\ UNCHANGED <<response, webpage_sources, javascript_sources, page_name,
                   line_data_dict, tracks, files, error, run, requests, opened,
                   files_before, prev>>

(* line 44: the file is opened at line 158, before gpx.to_xml() is          *)
(* evaluated at line 159                                                    *)
SaveGpxToFile ==
    /\ pc = "converted"
    /\ Enter("write")
    /\ log' = Append(log, "Exporting to '%s' file.")
    /\ LET file == GpxFile(page_name) IN
       IF Parent(file) \notin Directories
       THEN /\ Raise(Exc("FileNotFoundError", 158))
            /\ UNCHANGED <<files, opened>>
       ELSE /\ opened' = opened \cup {file}
            /\ IF Writable(gpx)
               THEN /\ files' = Write(Open(files, file), file, to_xml(gpx))
                    /\ pc' = "saved"
                    /\ UNCHANGED error
               ELSE /\ files' = Open(files, file)
                    /\ Raise(Exc("UnicodeEncodeError", 159))
    /\ UNCHANGED <<response, webpage_sources, javascript_sources, page_name,
                   line_data_dict, tracks, gpx, run, requests, files_before,
                   prev>>

(* line 46 *)
LogDone ==
    /\ pc = "saved"
    /\ log' = Append(log, "Done!")
    /\ pc' = "done"
    /\ UNCHANGED <<response, webpage_sources, javascript_sources, page_name,
                   line_data_dict, tracks, gpx, files, error, run, requests,
                   stages, opened, files_before, prev>>

(* the caller invokes parse again on the same url *)
Rerun ==
    /\ pc \in {"done", "failed"}
    /\ run < MaxRuns
    /\ prev' = [pc |-> pc, error |-> error, files |-> files]
    /\ run' = run + 1
    /\ files_before' = files
    /\ pc' = "start"
    /\ webpage_sources' = <<>>
    /\ javascript_sources' = <<>>
    /\ page_name' = <<>>
    /\ line_data_dict' = [features |-> <<>>]
    /\ tracks' = <<>>
    /\ gpx' = EmptyGpx
    /\ error' = NoError
    /\ log' = <<>>
    /\ requests' = 0
    /\ stages' = <<>>
    /\ opened' = {}
    /\ UNCHANGED <<response, files>>

Step ==
    \/ UrlOpen
    \/ ParseWebSources
    \/ ExtractTracks
    \/ ConvertToGpx
    \/ SaveGpxToFile
    \/ LogDone

Next == Step \/ Rerun

Spec == Init /\ [][Next]_vars

(* One run of parse.  parse is sequential and every call it makes returns   *)
(* or raises (urlopen is bounded by its timeout): a started run keeps       *)
(* taking steps.                                                            *)
FairSpec == Init /\ [][Step]_vars /\ WF_vars(Step)


---------------------------------------------------------------------------
(* __extract_tracks and __convert_to_gpx on their own: the run stands where *)
(* __parse_web_sources has returned, with any feature collection of         *)
(* bounded shape as line_data_dict.  Every coordinate component is named    *)
(* after its position in the input, so a moved, dropped or repeated         *)
(* coordinate shows.                                                        *)

GeometryTypes == {"LineString", "MultiLineString", "Point"}

(* a line is empty, a single pair, or as long as the bound allows *)
LineLengths == {0, 1, MaxCoords}

(* <<type, lengths of the lines>> *)
FeatureShapes ==
    {<<"LineString", <<n>>>> : n \in LineLengths}
    \cup {<<"MultiLineString", lens>> :
             lens \in UNION {[1..m -> LineLengths] : m \in 0..MaxLines}}
    \cup {<<"Point", <<>>>>}

Component(axis, k, i, j) ==
    axis \o ToString(k) \o "." \o ToString(i) \o "." \o ToString(j)

LineAt(k, i, n) ==
    [j \in 1..n |-> <<Component("lon", k, i, j), Component("lat", k, i, j)>>]

FeatureAt(k, shape) ==
    Feature(shape[1],
            CASE shape[1] = "LineString" -> LineAt(k, 1, shape[2][1])
              [] shape[1] = "MultiLineString" ->
                    [i \in 1..Len(shape[2]) |-> LineAt(k, i, shape[2][i])]
              [] OTHER -> <<Component("lon", k, 0, 0),
                            Component("lat", k, 0, 0)>>)

InitTracks ==
    /\ \E n \in 0..MaxFeatures :
          \E shapes \in [1..n -> FeatureShapes] :
             line_data_dict = [features |-> [k \in 1..n |-> FeatureAt(k, shapes[k])]]
    /\ pc = "parsed"
    /\ response = <<>>
    /\ files = NoFiles
    /\ files_before = files
    /\ prev = [pc |-> "none", error |-> NoError, files |-> files]
    /\ webpage_sources = <<>>
    /\ javascript_sources = <<>>
    /\ page_name = <<"x">>
    /\ tracks = <<>>
    /\ gpx = EmptyGpx
    /\ error = NoError
    /\ log = <<>>
    /\ run = 1
    /\ requests = 1
    /\ stages = <<"fetch", "extract">>
    /\ opened = {}

NextTracks == ExtractTracks \/ ConvertToGpx

SpecTracks == InitTracks /\ [][NextTracks]_vars

---------------------------------------------------------------------------
(* Properties of __extract_tracks.                                          *)

features == line_data_dict.features

Yield(feature) ==
    IF feature.geometry.type = "LineString" THEN 1
    ELSE IF feature.geometry.type = "MultiLineString"
    THEN Len(feature.geometry.coordinates)
    ELSE 0

(* number of tracks the first k features account for *)
RECURSIVE TracksUpTo(_)
TracksUpTo(k) == IF k = 0 THEN 0 ELSE TracksUpTo(k - 1) + Yield(features[k])

(* the input line that should have become the i-th track of feature k *)
InputLine(k, i) ==
    IF features[k].geometry.type = "LineString"
    THEN features[k].geometry.coordinates
    ELSE features[k].geometry.coordinates[i]

Built == pc \in {"tracked", "converted"}

(* C1: the track list holds one track per LineString feature and one per    *)
(* inner line of a MultiLineString feature, none for any other geometry,    *)
(* in input order: the tracks of feature k follow those of features 1..k-1  *)
(* and each has the length of its input line.                               *)
C1_TrackCount ==
    Built =>
        /\ Len(tracks) = TracksUpTo(Len(features))
        /\ \A k \in 1..Len(features) :
              \A i \in 1..Yield(features[k]) :
                 Len(tracks[TracksUpTo(k - 1) + i]) = Len(InputLine(k, i))

C1_Witness ==
    /\ pc = "tracked"
    /\ Len(features) = 2
    /\ features[1].geometry.type = "Point"
    /\ features[2].geometry.type = "MultiLineString"
    /\ Len(features[2].geometry.coordinates) = 2
    /\ Len(tracks) = 2

(* C2: every input pair [lon, lat] is found at the same position of its     *)
(* track as the coordinate (latitude = lat, longitude = lon).               *)
C2_CoordinateSwap ==
    Built =>
        \A k \in 1..Len(features) :
           \A i \in 1..Yield(features[k]) :
              LET track == tracks[TracksUpTo(k - 1) + i]
                  line == InputLine(k, i)
              IN  /\ Len(track) = Len(line)
                  /\ \A j \in 1..Len(line) :
                        /\ track[j].latitude = line[j][2]
                        /\ track[j].longitude = line[j][1]

C2_Witness ==
    /\ pc = "tracked"
    /\ Len(features) = 2
    /\ features[1].geometry.type = "LineString"
    /\ features[2].geometry.type = "MultiLineString"
    /\ Len(tracks) = 3
    /\ Len(tracks[1]) = 2
    /\ Len(tracks[3]) = 2
    /\ tracks[3][2] = [latitude |-> "lat2.2.2", longitude |-> "lon2.2.2"]

(* C3: the GPX document holds exactly one track, with one segment per track *)
(* of the collection and, in segment i, one point per coordinate of track   *)
(* i, carrying its latitude and longitude.                                  *)
C3_GpxShape ==
    pc = "converted" =>
        /\ Len(gpx.tracks) = 1
        /\ Len(gpx.tracks[1].segments) = Len(tracks)
        /\ \A i \in 1..Len(tracks) :
              LET points == gpx.tracks[1].segments[i].points IN
              /\ Len(points) = Len(tracks[i])
              /\ \A j \in 1..Len(tracks[i]) :
                    /\ points[j].latitude = tracks[i][j].latitude
                    /\ points[j].longitude = tracks[i][j].longitude

C3_Witness ==
    /\ pc = "converted"
    /\ Len(tracks) = 2
    /\ Len(tracks[1]) = 0
    /\ Len(tracks[2]) = 2
    /\ Len(gpx.tracks[1].segments) = 2

C3_WitnessEmpty ==
    /\ pc = "converted"
    /\ Len(tracks) = 0
    /\ Len(gpx.tracks) = 1

---------------------------------------------------------------------------
(* Properties of a run of parse.                                            *)

Ended == pc \in {"done", "failed"}

(* __parse_web_sources has run on the fetched body *)
Extracted == "extract" \in {stages[n] : n \in 1..Len(stages)}

(* The error kinds of the specification, as the exceptions of the code.     *)
EmptyResponseError == {Exc("ValueError", 56)}
MissingMarkerError == {Exc("ValueError", 60), Exc("ValueError", 66)}
MissingAssignmentError == {Exc("IndexError", 74), Exc("IndexError", 80)}

(* The script text as the specification defines it: strictly between the   *)
(* first opening marker and the first closing marker after it.              *)
AfterOpening(src) ==
    SubSeq(src, IndexOf(src, javascript_start_marker) + 1, Len(src))

HasScriptBlock(src) ==
    /\ Contains(src, javascript_start_marker)
    /\ Contains(AfterOpening(src), javascript_end_marker)

ScriptText(src) ==
    SubSeq(AfterOpening(src), 1,
           IndexOf(AfterOpening(src), javascript_end_marker) - 1)

(* The title as the specification defines it: what follows the title marker *)
(* up to the next ";", without its leading and trailing quote characters.   *)
AfterTitleMarker(js) == SubSeq(js, IndexOf(js, title_marker) + 1, Len(js))

TitleText(js) ==
    Strip(SubSeq(AfterTitleMarker(js), 1, IndexOf(AfterTitleMarker(js), ";") - 1),
          "'")

(* C4: a run that ends in an error leaves the file system as it was when    *)
(* the run started, and has opened no file.                                 *)
C4_ErrorLeavesFilesUntouched ==
    pc = "failed" => (files = files_before /\ opened = {})

(* The diagnostic statements of __parse_web_sources, and the pages the     *)
(* Track Builder has no reason to refuse.                                   *)
DiagnosticLines == {85, 89, 90, 94}

AcceptedPage(src) ==
    /\ Len(src) > 0
    /\ Contains(src, javascript_start_marker)
    /\ Contains(src, javascript_end_marker)
    /\ Contains(JavascriptSources(src), title_marker)
    /\ Contains(JavascriptSources(src), line_data_marker)
    /\ HasLiteral(LineDataRaw(JavascriptSources(src)))
    /\ HasFeatures(parse_js_object(LineDataRaw(JavascriptSources(src))))

(* C5: on a page with a non-empty body, both script markers, the title and  *)
(* lineData assignments and a lineData feature collection, the diagnostic   *)
(* steps (lines 83-95) do not end the run.                                  *)
C5_DiagnosticsNeverFail ==
    (Extracted /\ AcceptedPage(webpage_sources)) =>
        ~(pc = "failed" /\ error.line \in DiagnosticLines)

(* C6: __parse_web_sources rejects a body with the error kind of the first  *)
(* missing element (empty body, opening marker, closing marker, title       *)
(* assignment, lineData assignment), and a run rejected this way has        *)
(* entered no later stage and touched no file.                              *)
C6_RejectsInOrder ==
    Extracted =>
        LET src == webpage_sources IN
        /\ Len(src) = 0 => (pc = "failed" /\ error \in EmptyResponseError)
        /\ (Len(src) > 0 /\ ~Contains(src, javascript_start_marker))
              => (pc = "failed" /\ error = Exc("ValueError", 60))
        /\ (Contains(src, javascript_start_marker)
            /\ ~Contains(src, javascript_end_marker))
              => (pc = "failed" /\ error = Exc("ValueError", 66))
        /\ (HasScriptBlock(src) /\ ~Contains(ScriptText(src), title_marker))
              => (pc = "failed" /\ error = Exc("IndexError", 74))
        /\ (HasScriptBlock(src) /\ ~Contains(ScriptText(src), line_data_marker))
              => (pc = "failed" /\ error \in MissingAssignmentError)
        /\ (error \in EmptyResponseError \cup MissingMarkerError
                      \cup MissingAssignmentError)
              => /\ pc = "failed"
                 /\ stages = <<"fetch", "extract">>
                 /\ tracks = <<>>
                 /\ gpx = EmptyGpx
                 /\ opened = {}
                 /\ files = files_before

C6_Witness ==
    /\ pc = "failed"
    /\ error = Exc("IndexError", 80)
    /\ HasScriptBlock(webpage_sources)
    /\ Contains(ScriptText(webpage_sources), title_marker)

(* C7: a successful run has written exactly one file, <page_name>.gpx       *)
(* directly in the folder of the script, and the file holds the GPX text    *)
(* and nothing else.                                                        *)
C7_OneFileInScriptFolder ==
    pc \in {"saved", "done"} =>
        LET file == Components(current_script_folder_path)
                        \o <<page_name \o <<".gpx">>>>
        IN  /\ opened = {file}
            /\ file \in DOMAIN files
            /\ files[file] = to_xml(gpx)

(* C8: the script text is the text strictly between the first opening       *)
(* marker and the first closing marker after it, and the page title is what *)
(* follows the title marker in it up to the next ";", quotes stripped.      *)
C8_ScriptAndTitle ==
    (Extracted /\ HasScriptBlock(webpage_sources)) =>
        /\ javascript_sources = ScriptText(webpage_sources)
        /\ (Contains(AfterTitleMarker(ScriptText(webpage_sources)), ";")
            /\ pc # "failed")
              => page_name = TitleText(ScriptText(webpage_sources))

(* C9: a run that fetched the same body as the run before it ends the same  *)
(* way and leaves the file system as that run left it.                      *)
C9_Idempotent ==
    (/\ run > 1
     /\ Ended
     /\ error.type # "URLError"
     /\ prev.error.type # "URLError")
        => /\ pc = prev.pc
           /\ error = prev.error
           /\ files = prev.files

C9_Witness ==
    /\ run = 2
    /\ pc = "done"
    /\ prev.pc = "done"
    /\ \E file \in DOMAIN files : files[file] = to_xml(gpx) /\ Len(tracks) > 0

StageOrder == <<"fetch", "extract", "build", "convert", "write">>

RunInOrder ==
    /\ Len(stages) <= Len(StageOrder)
    /\ stages = SubSeq(StageOrder, 1, Len(stages))
    /\ requests = (IF pc = "start" THEN 0 ELSE 1)
    /\ (error # NoError) <=> (pc = "failed")
    /\ Contains(log, "Done!") <=> (pc = "done")
    /\ pc \in {"saved", "done"} =>
          /\ stages = StageOrder
          /\ \E file \in opened : files[file] = to_xml(gpx)

(* C10: a run performs one GET, enters its stages in the order fetch,       *)
(* extract, build, convert, write, enters none after an error, logs "Done!" *)
(* exactly when the file write has completed, and ends: a started run      *)
(* leads to an ended one, and an ended run takes no step.                   *)
C10_SingleForwardRun ==
    /\ []RunInOrder
    /\ [][~Ended]_vars
    /\ (pc = "start") ~> Ended

C10_Witness ==
    /\ pc = "done"
    /\ requests = 1
    /\ stages = StageOrder
    /\ Contains(log, "Done!")

====
